---- MODULE Spec2Model ----
(***************************************************************************)
(* ion-cannon: the ContentValidator consensus / fallback state machine     *)
(* (src/ion_cannon/processors/validator.py), the backend factory it is     *)
(* built from (src/ion_cannon/core/llm_factory.py), the summarizer         *)
(* (processors/summarizer.py) and the collector that drives them           *)
(* (core/collector.py: collect, _matches_keywords, _is_older_than_10_days, *)
(* process_content).                                                       *)
(*                                                                         *)
(* Confidences are floats in the source; here they are integers counted in *)
(* hundredths (0.9 is 90, 1.4 is 140).  A process call is cut at its       *)
(* awaited completion calls: pc names the _safe_llm_completion call whose  *)
(* acomplete is pending ("validator1", "validator2", "validator"), or is   *)
(* "idle" between process calls.                                           *)
(***************************************************************************)
EXTENDS Integers, Sequences, FiniteSets, TLC

VARIABLES
    use_multi_llm,   \* self.use_multi_llm
    validator,       \* self.validator   (a backend handle or "None")
    validator1,      \* self.validator1
    validator2,      \* self.validator2
    Settings_llm,    \* llama_index Settings.llm, process-wide
    pc,              \* position of the running process call
    item,            \* the item of the running / last process call
    result1,         \* local result1 of process
    result2,         \* local result2 of process
    result,          \* local result of process (single validator branch)
    ret,             \* value returned by the process call, once it returned
    calls,           \* completion requests of the running / last process call
    responses,       \* what acomplete gave to each of those requests
    ctor,            \* how the instance was constructed
    nCalls,          \* number of process calls started
    demotedAt,       \* index of the process call that fell back, 0 if none
    secondFailedAt,  \* index of the last process call where validator2 gave
                     \* nothing usable, 0 if none
    \* ContentCollector.process_content and ContentSummarizer
    KEYWORDS,        \* settings.KEYWORDS
    content,         \* the batch given to process_content
    ppc,             \* position of process_content
    keyword_matches, \* local keyword_matches (positions in content)
    recent_items,    \* local recent_items (positions in content)
    idx,             \* position of the LLM loop in recent_items
    keyword_filtered,
    date_filtered,
    llm_rejected,
    processed_items, \* local processed_items, the value returned
    summarizer_llm,  \* ContentSummarizer.llm
    verdicts,        \* is_relevant of each validation_result, in order
    summarized,      \* items summarizer.process was called with, in order
    sumlog,          \* what the summarizer's acomplete gave, in order
    excs,            \* items during whose validation acomplete raised
    \* ContentCollector.collect
    sources,         \* which of RSS_FEEDS / REDDIT_CHANNELS are configured
    cpc,             \* position of collect
    tasks,           \* the collector coroutines handed to asyncio.gather
    all_content,     \* the value collect returns
    \* _matches_keywords alone
    kw_item,         \* the item _matches_keywords is applied to
    kw_result,       \* what it returned
    \* run_collection and the collect command (main.py)
    rpc,             \* position of the run
    report,          \* the soft outcome printed, "none" if none
    saves,           \* number of save_results calls
    exit_status,     \* status the command ended with, -1 while it runs
    top_exc,         \* what reached the top level: "none", "Exception" or
                     \* "KeyboardInterrupt"
    \* _is_older_than_10_days alone
    age_date,        \* the date it is applied to
    age_result,      \* what it returned
    \* concurrent process calls (tasks of one event loop)
    instances,       \* the ContentValidator instances, by name
    task_self,       \* the instance each task's process call runs on
    task_pc,         \* position of each task
    task_llm,        \* the llm argument of the task's _safe_llm_completion
    task_name,       \* its validator_name argument
    task_sent,       \* the task's last completion request
    running          \* the task the event loop is running, 0 if none

vvars == <<use_multi_llm, validator, validator1, validator2, Settings_llm, pc,
           item, result1, result2, result, ret, calls, responses, ctor,
           nCalls, demotedAt, secondFailedAt>>

pvars == <<KEYWORDS, content, ppc, keyword_matches, recent_items, idx,
           keyword_filtered, date_filtered, llm_rejected, processed_items,
           summarizer_llm, verdicts, summarized, sumlog, excs>>

\* The inputs of process_content, and the locals of its two filter loops.
batch == <<KEYWORDS, content, summarizer_llm>>

filtered == <<keyword_matches, recent_items, keyword_filtered, date_filtered>>

cvars == <<sources, cpc, tasks, all_content>>

kvars == <<kw_item, kw_result>>

rvars == <<rpc, report, saves, exit_status, top_exc>>

avars == <<age_date, age_result>>

tvars == <<instances, task_self, task_pc, task_llm, task_name, task_sent,
           running>>

\* What none of process, process_content, collect and _matches_keywords
\* touches.
beyond == <<rvars, avars, tvars>>

\* What no step of ContentValidator.process touches.
outside == <<pvars, cvars, kvars, beyond>>

vars == <<vvars, pvars, cvars, kvars, beyond>>

----------------------------------------------------------------------------
(* Bounds *)

MaxCalls == 3

MaxItems == 3

Items == 1..MaxItems

----------------------------------------------------------------------------
(* Settings (config/settings.py), in hundredths *)

LLM_VALIDATOR_CONFIDENCE == 50

LLM_CONFIDENCE_THRESHOLD == 90

\* result.get("confidence", 0.9)
DefaultConfidence == 90

----------------------------------------------------------------------------
(* What a backend's acomplete can do *)

Raw(kind, conf_kind, conf, rel, topic, reason, aspects) ==
    [kind |-> kind, conf_kind |-> conf_kind, conf |-> conf, is_relevant |-> rel,
     has_topic |-> topic, has_reason |-> reason, has_aspects |-> aspects]

\* kind: "raise"   acomplete raised
\*       "notext"  falsy response, or a response without a text attribute
\*       "badjson" text that json.loads rejects
\*       "nondict" JSON that is not an object
\*       "dict"    a JSON object
\* conf_kind: "missing" no confidence key, "bad" a value float() rejects,
\*            "num" a number (conf, in hundredths)
FailKinds == {"raise", "notext", "badjson", "nondict"}

RawConfidences == {-20, 40, 90, 95, 140}

Relevances == {"true", "false", "missing"}

Responses ==
    {Raw(k, "missing", 0, "missing", FALSE, FALSE, FALSE) : k \in FailKinds}
    \cup {Raw("dict", "bad", 0, "true", TRUE, TRUE, TRUE)}
    \cup {Raw("dict", "num", c, r, TRUE, TRUE, TRUE) :
              c \in RawConfidences, r \in Relevances}
    \cup {Raw("dict", "missing", 0, r, TRUE, TRUE, TRUE) : r \in Relevances}
    \cup {Raw("dict", "num", 95, "true", FALSE, TRUE, TRUE),
          Raw("dict", "num", 95, "true", TRUE, FALSE, TRUE),
          Raw("dict", "num", 40, "true", TRUE, FALSE, TRUE),
          Raw("dict", "num", 95, "true", TRUE, TRUE, FALSE)}

----------------------------------------------------------------------------
(* _safe_llm_completion: parsing and normalisation of one response *)

Min(a, b) == IF b < a THEN b ELSE a

Max(a, b) == IF b > a THEN b ELSE a

ClampNoUpper(c) == Max(0, c)

\* max(0.0, min(1.0, float(c)))
Clamp(c) == Max(0, Min(100, c))

Unset ==
    [state |-> "unset", confidence |-> 0, is_relevant |-> "missing",
     has_topic |-> FALSE, has_reason |-> FALSE, key_aspects |-> "none"]

None == [Unset EXCEPT !.state = "None"]

\* The value _safe_llm_completion returns for a response r of a non-None llm.
SafeLLMCompletion(r) ==
    IF r.kind # "dict" THEN None
    ELSE IF r.conf_kind = "bad" THEN None
    ELSE [state |-> "dict",
          confidence |-> IF r.conf_kind = "missing" THEN Clamp(DefaultConfidence)
                         ELSE Clamp(r.conf),
          is_relevant |-> r.is_relevant,
          has_topic |-> r.has_topic,
          has_reason |-> r.has_reason,
          key_aspects |-> IF r.has_aspects THEN "given" ELSE "empty"]

\* "if not result": _safe_llm_completion gave None (a returned dict always
\* holds the confidence key, so it is never falsy)
IsNone(res) == res.state = "None"

----------------------------------------------------------------------------
(* _check_relevance: "True", "False", or "KeyError" when result["is_relevant"]
   is read and the key is missing *)

CheckRelevanceIgnoringThreshold(res) ==
    IF res.is_relevant = "missing" THEN "KeyError"
    ELSE IF res.is_relevant = "true" THEN "True" ELSE "False"

CheckRelevance(res) ==
    IF res.confidence < LLM_CONFIDENCE_THRESHOLD THEN "False"
    ELSE IF res.is_relevant = "missing" THEN "KeyError"
    ELSE IF res.is_relevant = "true" THEN "True" ELSE "False"

----------------------------------------------------------------------------
(* The values process returns *)

Ret(rel, conf, status, reason) ==
    [is_relevant |-> rel, confidence |-> conf, validation_status |-> status,
     reason |-> reason]

NoReturn == Ret(FALSE, 0, "none", "none")

Skipped == Ret(FALSE, LLM_VALIDATOR_CONFIDENCE, "skipped", "No validators available")

ValidationFailedThreshold ==
    Ret(FALSE, LLM_CONFIDENCE_THRESHOLD, "error", "Validation failed")

\* "If all validation attempts failed"
ValidationFailed ==
    Ret(FALSE, LLM_VALIDATOR_CONFIDENCE, "error", "Validation failed")

\* except Exception as e
ValidationError == Ret(FALSE, LLM_VALIDATOR_CONFIDENCE, "error", "Error")

MergedConfidenceFirst(c1, c2) == c1

\* min(result1["confidence"], result2["confidence"])
MergedConfidence(c1, c2) == Min(c1, c2)

\* await self._check_relevance(result1) and await self._check_relevance(result2)
BothRelevant(r1, r2) ==
    IF CheckRelevance(r1) = "KeyError" THEN "KeyError"
    ELSE IF CheckRelevance(r1) = "False" THEN "False"
    ELSE CheckRelevance(r2)

\* The multi-LLM return statement; any KeyError ends in the except clause.
MultiResult(r1, r2) ==
    LET ok == BothRelevant(r1, r2) IN
    IF ok = "KeyError" THEN ValidationError
    ELSE IF ~r1.has_topic THEN ValidationError
    ELSE IF ok = "True" /\ ~r1.has_reason THEN ValidationError
    ELSE Ret(ok = "True", MergedConfidence(r1.confidence, r2.confidence),
             "multi_llm", IF ok = "True" THEN "backend" ELSE "threshold")

\* The single validator return statement.
SingleResult(r) ==
    LET ok == CheckRelevance(r) IN
    IF ok = "KeyError" THEN ValidationError
    ELSE IF ~r.has_topic THEN ValidationError
    ELSE IF ok = "True" /\ ~r.has_reason THEN ValidationError
    ELSE Ret(ok = "True", r.confidence, "single_llm",
             IF ok = "True" THEN "backend" ELSE "threshold")

----------------------------------------------------------------------------
(* ContentItem (collectors/base.py).  A string is a sequence of characters;
   a date is None, or a string: empty, or one that the first matching entry
   fmt of date_formats parses to the naive time ts (in hours), or one that no
   entry parses (fmt = 0). *)

DateOf(text, fmt, ts) == [text |-> text, fmt |-> fmt, ts |-> ts]

NoDate == DateOf("None", 0, 0)

EmptyDate == DateOf("empty", 0, 0)

Unrecognized == DateOf("str", 0, 0)

ContentItem(title, body, date) ==
    [title |-> title, content |-> body, date |-> date]

NoItem == ContentItem(<<>>, <<>>, NoDate)

----------------------------------------------------------------------------
(* Construction: __init__ and _setup_llms over the outcomes of LLMFactory *)

\* create_llm gives a handle ("ok") or None ("none"); raised: the factory
\* call left _setup_llms through its except clause.
Ctor(multi, first, second, raised) ==
    [multi |-> multi, first |-> first, second |-> second, raised |-> raised]

Ctors ==
    {Ctor(TRUE, a, b, FALSE) : a \in {"ok", "none"}, b \in {"ok", "none"}}
    \cup {Ctor(FALSE, a, "none", FALSE) : a \in {"ok", "none"}}
    \cup {Ctor(m, "none", "none", TRUE) : m \in BOOLEAN}

\* LLMFactory.create_validation_llms(require_both=False)
create_validation_llms(c) ==
    <<IF c.first = "ok" THEN "A" ELSE "None",
      IF c.second = "ok" THEN "B" ELSE "None">>

\* LLMFactory.create_llm(require_llm=False) with the default provider
create_llm(c) == IF c.first = "ok" THEN "L" ELSE "None"

Self(um, v, v1, v2, sl) ==
    [use_multi_llm |-> um, validator |-> v, validator1 |-> v1,
     validator2 |-> v2, Settings_llm |-> sl]

PrimaryFailedKeepsMode(self) == [self EXCEPT !.validator = self.validator1]

PrimaryFailedUsesSecond(self) ==
    [self EXCEPT !.validator = self.validator2, !.use_multi_llm = FALSE]

\* "Primary validator failed, falling back to single validator mode"
PrimaryFailed(self) ==
    [self EXCEPT !.validator = self.validator1, !.use_multi_llm = FALSE]

SecondaryFailedDemotes(self) ==
    [self EXCEPT !.validator = self.validator1, !.use_multi_llm = FALSE]

\* "if result2:" has no else: a failed validator2 assigns nothing.
SecondaryFailed(self) == self

\* Settings.llm after the factory calls: each successful create_llm sets it.
LastCreated(v1, v2) == IF v2 # "None" THEN v2 ELSE v1

\* The instance after __init__(use_multi_llm = c.multi).
SetupLLMs(c) ==
    IF c.raised THEN Self(FALSE, "None", "None", "None", "None")
    ELSE IF c.multi THEN
        LET v == create_validation_llms(c) IN
        IF v[1] # "None" /\ v[2] # "None"
            THEN Self(TRUE, "None", v[1], v[2], LastCreated(v[1], v[2]))
        ELSE IF v[1] # "None"
            THEN Self(FALSE, v[1], v[1], v[2], LastCreated(v[1], v[2]))
        ELSE Self(TRUE, "None", v[1], v[2], LastCreated(v[1], v[2]))
    ELSE Self(FALSE, create_llm(c), "None", "None", create_llm(c))

\* The fields of a ContentValidator built with outcome c, no call made yet.
ValidatorBuilt(c) ==
    /\ ctor = c
    /\ use_multi_llm = SetupLLMs(c).use_multi_llm
    /\ validator = SetupLLMs(c).validator
    /\ validator1 = SetupLLMs(c).validator1
    /\ validator2 = SetupLLMs(c).validator2
    /\ pc = "idle"
    /\ item = 1
    /\ result1 = Unset
    /\ result2 = Unset
    /\ result = Unset
    /\ ret = NoReturn
    /\ calls = <<>>
    /\ responses = <<>>
    /\ nCalls = 0
    /\ demotedAt = 0
    /\ secondFailedAt = 0

\* process_content not running.
PipeIdle ==
    /\ KEYWORDS = <<>>
    /\ content = <<>>
    /\ ppc = "off"
    /\ keyword_matches = <<>>
    /\ recent_items = <<>>
    /\ idx = 1
    /\ keyword_filtered = 0
    /\ date_filtered = 0
    /\ llm_rejected = 0
    /\ processed_items = <<>>
    /\ summarizer_llm = "None"
    /\ verdicts = <<>>
    /\ summarized = <<>>
    /\ sumlog = <<>>
    /\ excs = {}

\* collect not running.
CollectIdle ==
    /\ sources = {}
    /\ cpc = "off"
    /\ tasks = <<>>
    /\ all_content = <<>>

KwIdle ==
    /\ kw_item = NoItem
    /\ kw_result = "none"

\* No run of the collect command.
RunIdle ==
    /\ rpc = "off"
    /\ report = "none"
    /\ saves = 0
    /\ exit_status = -1
    /\ top_exc = "none"

AgeIdle ==
    /\ age_date = NoDate
    /\ age_result = "none"

\* No concurrent process calls.
TasksIdle ==
    /\ instances = <<>>
    /\ task_self = <<>>
    /\ task_pc = <<>>
    /\ task_llm = <<>>
    /\ task_name = <<>>
    /\ task_sent = <<>>
    /\ running = 0

BeyondIdle == RunIdle /\ AgeIdle /\ TasksIdle

\* A validator instance on its own.
Init ==
    \E c \in Ctors :
        /\ ValidatorBuilt(c)
        /\ Settings_llm = SetupLLMs(c).Settings_llm
        /\ PipeIdle
        /\ CollectIdle
        /\ KwIdle
        /\ BeyondIdle

----------------------------------------------------------------------------
(* process *)

NoValidatorsMultiOnly(um, v, v1, v2) == um /\ ~(v1 # "None" \/ v2 # "None")

\* The guard of the "skipped" return.
NoValidators(um, v, v1, v2) ==
    \/ um /\ ~(v1 # "None" \/ v2 # "None")
    \/ ~um /\ v = "None"

MultiBranchIgnoringMode(um, v1, v2) == v1 # "None" /\ v2 # "None"

\* if self.use_multi_llm and self.validator1 and self.validator2
MultiBranch(um, v1, v2) == um /\ v1 # "None" /\ v2 # "None"

SingleValidatorConfigured(um, v, v1) == v

\* validator = self.validator1 if self.use_multi_llm else self.validator
SingleValidator(um, v, v1) == IF um THEN v1 ELSE v

\* Entry of a process call: fresh locals.
Enter(i) ==
    /\ pc = "idle"
    /\ nCalls < MaxCalls
    /\ nCalls' = nCalls + 1
    /\ item' = i
    /\ result1' = Unset
    /\ result2' = Unset
    /\ result' = Unset

\* _safe_llm_completion up to its await: Settings.llm = llm, then
\* Settings.llm.acomplete(prompt) is requested.
Request(llm, name, sofar, it) ==
    /\ Settings_llm' = llm
    /\ calls' = Append(sofar, [llm |-> Settings_llm', item |-> it])
    /\ pc' = name

Return(value) ==
    /\ ret' = value
    /\ pc' = "idle"

ProcessSkipped(i) ==
    /\ Enter(i)
    /\ NoValidators(use_multi_llm, validator, validator1, validator2)
    /\ calls' = <<>>
    /\ responses' = <<>>
    /\ Return(Skipped)
    /\ UNCHANGED <<use_multi_llm, validator, validator1, validator2,
                   Settings_llm, ctor, outside, secondFailedAt, demotedAt>>

ProcessMulti(i) ==
    /\ Enter(i)
    /\ ~NoValidators(use_multi_llm, validator, validator1, validator2)
    /\ MultiBranch(use_multi_llm, validator1, validator2)
    /\ responses' = <<>>
    /\ Request(validator1, "validator1", <<>>, i)
    /\ ret' = NoReturn
    /\ UNCHANGED <<use_multi_llm, validator, validator1, validator2, ctor, outside, secondFailedAt,
                   demotedAt>>

ProcessSingle(i) ==
    /\ Enter(i)
    /\ ~NoValidators(use_multi_llm, validator, validator1, validator2)
    /\ ~MultiBranch(use_multi_llm, validator1, validator2)
    /\ SingleValidator(use_multi_llm, validator, validator1) # "None"
    /\ responses' = <<>>
    /\ Request(SingleValidator(use_multi_llm, validator, validator1),
               "validator", <<>>, i)
    /\ ret' = NoReturn
    /\ UNCHANGED <<use_multi_llm, validator, validator1, validator2, ctor, outside, secondFailedAt,
                   demotedAt>>

\* Neither branch has a backend to call: "All validation attempts failed".
ProcessNoCall(i) ==
    /\ Enter(i)
    /\ ~NoValidators(use_multi_llm, validator, validator1, validator2)
    /\ ~MultiBranch(use_multi_llm, validator1, validator2)
    /\ SingleValidator(use_multi_llm, validator, validator1) = "None"
    /\ calls' = <<>>
    /\ responses' = <<>>
    /\ Return(ValidationFailed)
    /\ UNCHANGED <<use_multi_llm, validator, validator1, validator2,
                   Settings_llm, ctor, outside, secondFailedAt, demotedAt>>

\* validator1 answered with nothing usable: fall back, then the single
\* validator branch of the same call.
Complete1Failed(r) ==
    /\ pc = "validator1"
    /\ result1' = SafeLLMCompletion(r)
    /\ IsNone(result1')
    /\ responses' = Append(responses, r)
    /\ validator' = PrimaryFailed(Self(use_multi_llm, validator, validator1,
                                       validator2, Settings_llm)).validator
    /\ use_multi_llm' = PrimaryFailed(Self(use_multi_llm, validator, validator1,
                                           validator2, Settings_llm)).use_multi_llm
    /\ demotedAt' = nCalls
    /\ IF SingleValidator(use_multi_llm', validator', validator1) # "None"
       THEN /\ Request(SingleValidator(use_multi_llm', validator', validator1),
                       "validator", calls, item)
            /\ ret' = ret
       ELSE /\ Return(ValidationFailed)
            /\ UNCHANGED <<Settings_llm, calls>>
    /\ UNCHANGED <<validator1, validator2, item, result2, result, ctor, outside, secondFailedAt, nCalls>>

Complete1Ok(r) ==
    /\ pc = "validator1"
    /\ result1' = SafeLLMCompletion(r)
    /\ ~IsNone(result1')
    /\ responses' = Append(responses, r)
    /\ Request(validator2, "validator2", calls, item)
    /\ UNCHANGED <<use_multi_llm, validator, validator1, validator2, item,
                   result2, result, ret, ctor, outside, secondFailedAt, nCalls, demotedAt>>

Complete2Ok(r) ==
    /\ pc = "validator2"
    /\ result2' = SafeLLMCompletion(r)
    /\ ~IsNone(result2')
    /\ responses' = Append(responses, r)
    /\ Return(MultiResult(result1, result2'))
    /\ UNCHANGED <<use_multi_llm, validator, validator1, validator2,
                   Settings_llm, item, result1, result, calls, ctor, outside, secondFailedAt, nCalls,
                   demotedAt>>

\* validator2 answered with nothing usable: the single validator branch
\* runs with validator1, the mode is kept.
Complete2Failed(r) ==
    /\ pc = "validator2"
    /\ result2' = SafeLLMCompletion(r)
    /\ IsNone(result2')
    /\ responses' = Append(responses, r)
    /\ secondFailedAt' = nCalls
    /\ validator' = SecondaryFailed(Self(use_multi_llm, validator, validator1,
                                         validator2, Settings_llm)).validator
    /\ use_multi_llm' = SecondaryFailed(Self(use_multi_llm, validator, validator1,
                                             validator2, Settings_llm)).use_multi_llm
    /\ IF SingleValidator(use_multi_llm', validator', validator1) # "None"
       THEN /\ Request(SingleValidator(use_multi_llm', validator', validator1),
                       "validator", calls, item)
            /\ ret' = ret
       ELSE /\ Return(ValidationFailed)
            /\ UNCHANGED <<Settings_llm, calls>>
    /\ UNCHANGED <<validator1, validator2, item,
                   result1, result, ctor, outside, nCalls, demotedAt>>

CompleteSingleOk(r) ==
    /\ pc = "validator"
    /\ result' = SafeLLMCompletion(r)
    /\ ~IsNone(result')
    /\ responses' = Append(responses, r)
    /\ Return(SingleResult(result'))
    /\ UNCHANGED <<use_multi_llm, validator, validator1, validator2,
                   Settings_llm, item, result1, result2, calls, ctor, outside, secondFailedAt, nCalls,
                   demotedAt>>

CompleteSingleFailed(r) ==
    /\ pc = "validator"
    /\ result' = SafeLLMCompletion(r)
    /\ IsNone(result')
    /\ responses' = Append(responses, r)
    /\ Return(ValidationFailed)
    /\ UNCHANGED <<use_multi_llm, validator, validator1, validator2,
                   Settings_llm, item, result1, result2, calls, ctor, outside, secondFailedAt, nCalls,
                   demotedAt>>

Next ==
    \/ \E i \in Items : ProcessSkipped(i)
    \/ \E i \in Items : ProcessMulti(i)
    \/ \E i \in Items : ProcessSingle(i)
    \/ \E i \in Items : ProcessNoCall(i)
    \/ \E r \in Responses : Complete1Failed(r)
    \/ \E r \in Responses : Complete1Ok(r)
    \/ \E r \in Responses : Complete2Ok(r)
    \/ \E r \in Responses : Complete2Failed(r)
    \/ \E r \in Responses : CompleteSingleOk(r)
    \/ \E r \in Responses : CompleteSingleFailed(r)

Spec == Init /\ [][Next]_vars

----------------------------------------------------------------------------
(* _matches_keywords (core/collector.py).  Strings are sequences of
   characters over a small alphabet with both cases. *)

MaxLen == 2

MaxKeywords == 2

Alphabet == {"a", "A", "b"}

\* str.lower on one character
LowerChar(c) == IF c = "A" THEN "a" ELSE c

\* str.lower
Lower(s) == [k \in 1..Len(s) |-> LowerChar(s[k])]

\* k in s
IsSubstring(k, s) ==
    \E i \in 0..(Len(s) - Len(k)) : SubSeq(s, i + 1, i + Len(k)) = k

StringsUpTo(n) == UNION {[1..m -> Alphabet] : m \in 0..n}

\* Entries of settings.KEYWORDS
KeywordStrings ==
    {<<"a">>, <<"A">>, <<"b">>, <<"a", "b">>, <<"A", "b">>, <<"b", "A">>}

KeywordLists == UNION {[1..m -> KeywordStrings] : m \in 0..MaxKeywords}

MatchesKeywordsCaseSensitive(keywords, it) ==
    \/ keywords = <<>>
    \/ \E n \in 1..Len(keywords) :
           \/ IsSubstring(keywords[n], it.content)
           \/ IsSubstring(keywords[n], it.title)

\* ContentCollector._matches_keywords with settings.KEYWORDS = keywords
MatchesKeywords(keywords, it) ==
    \/ keywords = <<>>
    \/ \E n \in 1..Len(keywords) :
           \/ IsSubstring(Lower(keywords[n]), Lower(it.content))
           \/ IsSubstring(Lower(keywords[n]), Lower(it.title))

\* Any keyword list, any title and content; the date plays no part.
KwInit ==
    /\ \E c \in Ctors : /\ ValidatorBuilt(c)
                       /\ Settings_llm = SetupLLMs(c).Settings_llm
                       /\ c = Ctor(FALSE, "ok", "none", FALSE)
    /\ CollectIdle
    /\ BeyondIdle
    /\ \E ks \in KeywordLists, t \in StringsUpTo(MaxLen),
          b \in StringsUpTo(MaxLen) :
           /\ KEYWORDS = ks
           /\ kw_item = ContentItem(t, b, NoDate)
    /\ kw_result = "none"
    /\ content = <<>>
    /\ ppc = "off"
    /\ keyword_matches = <<>>
    /\ recent_items = <<>>
    /\ idx = 1
    /\ keyword_filtered = 0
    /\ date_filtered = 0
    /\ llm_rejected = 0
    /\ processed_items = <<>>
    /\ summarizer_llm = "None"
    /\ verdicts = <<>>
    /\ summarized = <<>>
    /\ sumlog = <<>>
    /\ excs = {}

\* self._matches_keywords(item)
MatchesKeywordsCall ==
    /\ kw_result = "none"
    /\ kw_result' = IF MatchesKeywords(KEYWORDS, kw_item) THEN "True" ELSE "False"
    /\ UNCHANGED <<vvars, pvars, cvars, beyond, kw_item>>

KwNext == MatchesKeywordsCall

KwSpec == KwInit /\ [][KwNext]_vars

----------------------------------------------------------------------------
(* _is_older_than_10_days (core/collector.py); times in hours *)

HoursPerDay == 24

\* (current_date - item_date).days > 10
MaxAgeDays == 10

\* datetime.now()
Now == 480

\* timedelta.days: whole days, rounded down
Days(hours) == hours \div HoursPerDay

IsOlderThan10DaysInclusive(date) ==
    IF date.text \in {"None", "empty"} THEN "False"
    ELSE IF date.fmt = 0 THEN "ValueError"
    ELSE IF Days(Now - date.ts) >= MaxAgeDays THEN "True" ELSE "False"

\* "True", "False", or "ValueError" when no entry of date_formats parses
IsOlderThan10Days(date) ==
    IF date.text \in {"None", "empty"} THEN "False"
    ELSE IF date.fmt = 0 THEN "ValueError"
    ELSE IF Days(Now - date.ts) > MaxAgeDays THEN "True" ELSE "False"

\* The span of ages tried, in hours before and after now.
MaxHours == 300

\* The entries of date_formats
DateFormats == 1..6

\* Any date: missing, empty, unparseable, or parsed by some format to a
\* time within MaxHours of now.
AgeInit ==
    /\ \E c \in Ctors : /\ ValidatorBuilt(c)
                       /\ Settings_llm = SetupLLMs(c).Settings_llm
                       /\ c = Ctor(FALSE, "ok", "none", FALSE)
    /\ PipeIdle
    /\ CollectIdle
    /\ KwIdle
    /\ RunIdle
    /\ TasksIdle
    /\ age_date \in {NoDate, EmptyDate, Unrecognized}
                    \cup {DateOf("str", f, Now - h) :
                              f \in DateFormats, h \in (0 - MaxHours)..MaxHours}
    /\ age_result = "none"

\* self._is_older_than_10_days(item.date)
IsOlderThan10DaysCall ==
    /\ age_result = "none"
    /\ age_result' = IsOlderThan10Days(age_date)
    /\ UNCHANGED <<vvars, pvars, cvars, kvars, rvars, tvars, age_date>>

AgeNext == IsOlderThan10DaysCall

AgeSpec == AgeInit /\ [][AgeNext]_vars

----------------------------------------------------------------------------
(* ContentSummarizer.process (processors/summarizer.py) *)

\* What the summarizer's acomplete can do: raise, give text json.loads
\* rejects, or give a JSON object with or without a "title" key, and with or
\* without a "url" key (which stands for "source" and "date" as well).
SumRaw(kind, has_title, has_url) ==
    [kind |-> kind, has_title |-> has_title, has_url |-> has_url]

SumResponses ==
    {SumRaw("raise", FALSE, FALSE), SumRaw("badjson", FALSE, FALSE),
     SumRaw("dict", TRUE, FALSE), SumRaw("dict", FALSE, FALSE),
     SumRaw("dict", TRUE, TRUE)}

\* The dict process returns; title or url "missing": no such key.
Summary(title, url, status) ==
    [title |-> title, url |-> url, summarization_status |-> status]

\* item.title or default
TitleOr(it, default) == IF it.title # <<>> THEN "item.title" ELSE default

SummarySkippedAsError(it) ==
    Summary(TitleOr(it, "Untitled"), "missing", "error")

\* The return of "if not self.llm"
SummarySkipped(it) == Summary(TitleOr(it, "Untitled"), "missing", "skipped")

SummaryErrorAsSkipped(it) ==
    Summary(TitleOr(it, "Untitled"), "missing", "skipped")

\* The return of the except clause
SummaryError(it) ==
    Summary(TitleOr(it, "Error Processing Title"), "missing", "error")

\* The try block on response r
Summarize(it, r) ==
    IF r.kind # "dict" THEN SummaryError(it)
    ELSE Summary(IF r.has_title THEN "llm" ELSE "missing",
                 IF r.has_url THEN "llm" ELSE "missing", "success")

----------------------------------------------------------------------------
(* ContentCollector.process_content (core/collector.py).  Items are named by
   their position in content. *)

Recent == DateOf("str", 1, Now - 5 * HoursPerDay)

Old == DateOf("str", 6, Now - 11 * HoursPerDay)

\* Title, content, date
Catalogue ==
    {ContentItem(<<"A", "b">>, <<>>, NoDate),
     ContentItem(<<>>, <<"b", "a", "b">>, EmptyDate),
     ContentItem(<<"b">>, <<"b", "b">>, Recent),
     ContentItem(<<"a", "b">>, <<"b">>, Old),
     ContentItem(<<"a", "b">>, <<"a">>, Unrecognized)}

\* Batches of distinct items
Batches ==
    {b \in UNION {[1..n -> Catalogue] : n \in 0..MaxItems} :
         \A i, j \in 1..Len(b) : b[i] = b[j] => i = j}

PipeKeywords == {<<>>, <<(<<"A", "b">>)>>}

PipeCtors ==
    {Ctor(TRUE, "ok", "ok", FALSE), Ctor(TRUE, "none", "ok", FALSE),
     Ctor(FALSE, "ok", "none", FALSE), Ctor(FALSE, "none", "none", FALSE)}

PipeResponses ==
    {Raw("raise", "missing", 0, "missing", FALSE, FALSE, FALSE),
     Raw("dict", "num", 95, "true", TRUE, TRUE, TRUE),
     Raw("dict", "num", 40, "true", TRUE, TRUE, TRUE)}

Positions(n) == [k \in 1..n |-> k]

KeywordFilterOff(ks, c, k) == TRUE

\* if self._matches_keywords(item)
KeywordFilter(ks, c, k) == MatchesKeywords(ks, c[k])

\* The keyword loop: the positions appended to keyword_matches.
KeywordMatches(ks, c) ==
    SelectSeq(Positions(Len(c)), LAMBDA k : KeywordFilter(ks, c, k))

RECURSIVE DateLoop(_, _, _)
\* The date loop over the positions todo; raised when
\* _is_older_than_10_days left it with ValueError.
DateLoop(c, todo, acc) ==
    IF todo = <<>> THEN acc
    ELSE LET old == IsOlderThan10Days(c[Head(todo)].date) IN
         IF old = "ValueError" THEN [acc EXCEPT !.raised = TRUE]
         ELSE IF old = "True"
             THEN DateLoop(c, Tail(todo),
                           [acc EXCEPT !.date_filtered = @ + 1])
         ELSE DateLoop(c, Tail(todo),
                       [acc EXCEPT !.recent_items = Append(@, Head(todo))])

DateFilterUncounted(c, todo) ==
    [DateLoop(c, todo, [recent_items |-> <<>>, date_filtered |-> 0,
                        raised |-> FALSE]) EXCEPT !.date_filtered = 0]

\* The date loop from its start
DateFilter(c, todo) ==
    DateLoop(c, todo, [recent_items |-> <<>>, date_filtered |-> 0,
                       raised |-> FALSE])

\* processed_item: the keys of summary replace those written before them.
ProcessedItem(k, it, summary) ==
    [item |-> k,
     url |-> IF summary.url # "missing" THEN summary.url ELSE "item.url",
     title |-> IF summary.title # "missing" THEN summary.title
               ELSE TitleOr(it, "Untitled"),
     summarization_status |-> summary.summarization_status]

\* A ContentCollector and a batch; has_sources is sources # {}.
PipeInit ==
    /\ \E c \in PipeCtors : /\ ValidatorBuilt(c)
                           /\ Settings_llm = SetupLLMs(c).Settings_llm
    /\ sources \in {{}, {"RSS"}}
    /\ sources = {} => ctor = Ctor(FALSE, "none", "none", FALSE)
    /\ cpc = "off"
    /\ tasks = <<>>
    /\ all_content = <<>>
    /\ KwIdle
    /\ BeyondIdle
    /\ KEYWORDS \in PipeKeywords
    /\ content \in Batches
    /\ summarizer_llm \in {"None", "S"}
    /\ ppc = "start"
    /\ keyword_matches = <<>>
    /\ recent_items = <<>>
    /\ idx = 1
    /\ keyword_filtered = 0
    /\ date_filtered = 0
    /\ llm_rejected = 0
    /\ processed_items = <<>>
    /\ verdicts = <<>>
    /\ summarized = <<>>
    /\ sumlog = <<>>
    /\ excs = {}

\* if not self.has_sources: return []
ProcessContentNoSources ==
    /\ ppc = "start"
    /\ sources = {}
    /\ ppc' = "done"
    /\ UNCHANGED <<vvars, cvars, kvars, beyond, batch, filtered, idx, llm_rejected,
                   processed_items, verdicts, summarized, sumlog, excs>>

\* if not content: return []
ProcessContentEmpty ==
    /\ ppc = "start"
    /\ sources # {}
    /\ content = <<>>
    /\ ppc' = "done"
    /\ UNCHANGED <<vvars, cvars, kvars, beyond, batch, filtered, idx, llm_rejected,
                   processed_items, verdicts, summarized, sumlog, excs>>

\* The keyword loop and the date loop, up to the first validator call.
ProcessContentFilter ==
    /\ ppc = "start"
    /\ sources # {}
    /\ content # <<>>
    /\ keyword_matches' = KeywordMatches(KEYWORDS, content)
    /\ keyword_filtered' = Len(content) - Len(keyword_matches')
    /\ ~DateFilter(content, keyword_matches').raised
    /\ recent_items' = DateFilter(content, keyword_matches').recent_items
    /\ date_filtered' = DateFilter(content, keyword_matches').date_filtered
    /\ idx' = 1
    /\ ppc' = "loop"
    /\ UNCHANGED <<vvars, cvars, kvars, beyond, batch, llm_rejected, processed_items,
                   verdicts, summarized, sumlog, excs>>

\* The date loop is left by the ValueError of _is_older_than_10_days, and
\* process_content with it.
ProcessContentDateError ==
    /\ ppc = "start"
    /\ sources # {}
    /\ content # <<>>
    /\ keyword_matches' = KeywordMatches(KEYWORDS, content)
    /\ keyword_filtered' = Len(content) - Len(keyword_matches')
    /\ DateFilter(content, keyword_matches').raised
    /\ recent_items' = DateFilter(content, keyword_matches').recent_items
    /\ date_filtered' = DateFilter(content, keyword_matches').date_filtered
    /\ ppc' = "raised"
    /\ UNCHANGED <<vvars, cvars, kvars, beyond, batch, idx, llm_rejected,
                   processed_items, verdicts, summarized, sumlog, excs>>

\* The LLM loop is at an item whose validation has not started.
AtItem ==
    /\ ppc = "loop"
    /\ idx <= Len(recent_items)
    /\ pc = "idle"
    /\ nCalls = idx - 1

\* validation_result = await self.validator.process(item)
ValidateSkipped == AtItem /\ ProcessSkipped(recent_items[idx])

ValidateMulti == AtItem /\ ProcessMulti(recent_items[idx])

ValidateSingle == AtItem /\ ProcessSingle(recent_items[idx])

ValidateNoCall == AtItem /\ ProcessNoCall(recent_items[idx])

\* validator.process has returned for the item of the loop.
Validated ==
    /\ ppc = "loop"
    /\ idx <= Len(recent_items)
    /\ pc = "idle"
    /\ nCalls = idx

\* The items during whose validation acomplete raised, this one included.
WithRaises ==
    IF \E k \in 1..Len(responses) : responses[k].kind = "raise"
    THEN excs \cup {recent_items[idx]} ELSE excs

\* else: llm_rejected += 1
Rejected ==
    /\ Validated
    /\ ~ret.is_relevant
    /\ verdicts' = Append(verdicts, ret.is_relevant)
    /\ llm_rejected' = llm_rejected + 1
    /\ idx' = idx + 1
    /\ excs' = WithRaises
    /\ UNCHANGED <<vvars, cvars, kvars, beyond, batch, filtered, ppc, processed_items,
                   summarized, sumlog>>

\* summarizer.process without a backend, and the record
SummarizeSkipped ==
    /\ Validated
    /\ ret.is_relevant
    /\ verdicts' = Append(verdicts, ret.is_relevant)
    /\ summarizer_llm = "None"
    /\ summarized' = Append(summarized, recent_items[idx])
    /\ processed_items' =
           Append(processed_items,
                  ProcessedItem(recent_items[idx], content[recent_items[idx]],
                                SummarySkipped(content[recent_items[idx]])))
    /\ idx' = idx + 1
    /\ excs' = WithRaises
    /\ UNCHANGED <<vvars, cvars, kvars, beyond, batch, filtered, ppc, llm_rejected,
                   sumlog>>

SummarizeRequestAlways ==
    /\ Validated
    /\ verdicts' = Append(verdicts, ret.is_relevant)
    /\ summarizer_llm # "None"
    /\ summarized' = Append(summarized, recent_items[idx])
    /\ ppc' = "summarizing"
    /\ excs' = WithRaises
    /\ UNCHANGED <<vvars, cvars, kvars, beyond, batch, filtered, idx, llm_rejected,
                   processed_items, sumlog>>

\* summarizer.process up to await self.llm.acomplete
SummarizeRequest ==
    /\ Validated
    /\ ret.is_relevant
    /\ verdicts' = Append(verdicts, ret.is_relevant)
    /\ summarizer_llm # "None"
    /\ summarized' = Append(summarized, recent_items[idx])
    /\ ppc' = "summarizing"
    /\ excs' = WithRaises
    /\ UNCHANGED <<vvars, cvars, kvars, beyond, batch, filtered, idx, llm_rejected,
                   processed_items, sumlog>>

\* The summarizer's acomplete gave r: the rest of summarizer.process, and
\* the record.
SummarizeComplete(r) ==
    /\ ppc = "summarizing"
    /\ sumlog' = Append(sumlog, r)
    /\ processed_items' =
           Append(processed_items,
                  ProcessedItem(recent_items[idx], content[recent_items[idx]],
                                Summarize(content[recent_items[idx]], r)))
    /\ idx' = idx + 1
    /\ ppc' = "loop"
    /\ UNCHANGED <<vvars, cvars, kvars, beyond, batch, filtered, llm_rejected,
                   verdicts, summarized, excs>>

\* return processed_items
ProcessContentReturn ==
    /\ ppc = "loop"
    /\ idx = Len(recent_items) + 1
    /\ ppc' = "done"
    /\ UNCHANGED <<vvars, cvars, kvars, beyond, batch, filtered, idx, llm_rejected,
                   processed_items, verdicts, summarized, sumlog, excs>>

PipeNext ==
    \/ ProcessContentNoSources
    \/ ProcessContentEmpty
    \/ ProcessContentFilter
    \/ ProcessContentDateError
    \/ ValidateSkipped
    \/ ValidateMulti
    \/ ValidateSingle
    \/ ValidateNoCall
    \/ \E r \in PipeResponses : Complete1Failed(r)
    \/ \E r \in PipeResponses : Complete1Ok(r)
    \/ \E r \in PipeResponses : Complete2Ok(r)
    \/ \E r \in PipeResponses : Complete2Failed(r)
    \/ \E r \in PipeResponses : CompleteSingleOk(r)
    \/ \E r \in PipeResponses : CompleteSingleFailed(r)
    \/ Rejected
    \/ SummarizeSkipped
    \/ SummarizeRequest
    \/ \E r \in SumResponses : SummarizeComplete(r)
    \/ ProcessContentReturn

PipeSpec == PipeInit /\ [][PipeNext]_vars

----------------------------------------------------------------------------
(* ContentCollector.collect (core/collector.py) with collect_rss and
   collect_reddit.  An item is named by its source and a number. *)

MaxSourceItems == 2

SourceItem(source, n) == [source |-> source, n |-> n]

\* A coroutine handed to gather: pending, running, done (it returned items)
\* or raised (items: what it had collected so far, lost with the exception).
Task(state, items) == [state |-> state, items |-> items]

ItemLists(source) ==
    UNION {[1..m -> {SourceItem(source, n) : n \in 1..MaxSourceItems}] :
               m \in 0..MaxSourceItems}

\* The order of the list collectors.
Collectors == <<"RSS", "Reddit">>

ReturnExceptionsOff == FALSE

\* asyncio.gather(*collectors, return_exceptions=True)
ReturnExceptions == TRUE

RECURSIVE Gathered(_, _, _)
\* The loop over zip(["RSS", "Web"], results), from collector k on.
Gathered(ts, k, acc) ==
    IF k > Len(Collectors) THEN acc
    ELSE IF Collectors[k] \notin DOMAIN ts THEN Gathered(ts, k + 1, acc)
    ELSE IF ts[Collectors[k]].state = "raised" THEN Gathered(ts, k + 1, acc)
    ELSE Gathered(ts, k + 1, acc \o ts[Collectors[k]].items)

\* A ContentCollector with any of the two source lists configured.
CollectInit ==
    /\ \E c \in Ctors : /\ ValidatorBuilt(c)
                       /\ Settings_llm = SetupLLMs(c).Settings_llm
                       /\ c = Ctor(FALSE, "ok", "none", FALSE)
    /\ PipeIdle
    /\ KwIdle
    /\ BeyondIdle
    /\ sources \in SUBSET {"RSS", "Reddit"}
    /\ cpc = "start"
    /\ tasks = <<>>
    /\ all_content = <<>>

\* if not self.has_sources: return []
CollectNoSources ==
    /\ cpc = "start"
    /\ sources = {}
    /\ cpc' = "done"
    /\ UNCHANGED <<vvars, pvars, kvars, beyond, sources, tasks, all_content>>

\* collect up to await asyncio.gather
CollectGather ==
    /\ cpc = "start"
    /\ sources # {}
    /\ tasks' = [src \in sources |-> Task("pending", <<>>)]
    /\ cpc' = "gather"
    /\ UNCHANGED <<vvars, pvars, kvars, beyond, sources, all_content>>

\* collect_rss has no await: it runs in one piece and returns the items of
\* the feeds that could be read.
CollectRssDone(items) ==
    /\ cpc = "gather"
    /\ "RSS" \in sources
    /\ tasks["RSS"].state = "pending"
    /\ tasks' = [tasks EXCEPT !["RSS"] = Task("done", items)]
    /\ UNCHANGED <<vvars, pvars, kvars, beyond, sources, cpc, all_content>>

\* RssReader() raised
CollectRssRaised ==
    /\ cpc = "gather"
    /\ "RSS" \in sources
    /\ tasks["RSS"].state = "pending"
    /\ tasks' = [tasks EXCEPT !["RSS"] = Task("raised", <<>>)]
    /\ UNCHANGED <<vvars, pvars, kvars, beyond, sources, cpc, all_content>>

RedditActive ==
    /\ cpc = "gather"
    /\ "Reddit" \in sources
    /\ tasks["Reddit"].state \in {"pending", "running"}

\* collect_reddit from one await to the next, a matching post appended
CollectRedditAppend(it) ==
    /\ RedditActive
    /\ Len(tasks["Reddit"].items) < MaxSourceItems
    /\ tasks' = [tasks EXCEPT !["Reddit"] =
                     Task("running", Append(@.items, it))]
    /\ UNCHANGED <<vvars, pvars, kvars, beyond, sources, cpc, all_content>>

\* return items
CollectRedditDone ==
    /\ RedditActive
    /\ tasks' = [tasks EXCEPT !["Reddit"] = Task("done", @.items)]
    /\ UNCHANGED <<vvars, pvars, kvars, beyond, sources, cpc, all_content>>

\* asyncpraw.Reddit(...), the client session or reddit.close() raised
CollectRedditRaised ==
    /\ RedditActive
    /\ tasks' = [tasks EXCEPT !["Reddit"] = Task("raised", @.items)]
    /\ UNCHANGED <<vvars, pvars, kvars, beyond, sources, cpc, all_content>>

\* gather has every result: the loop over the results, and the return.
CollectReturn ==
    /\ cpc = "gather"
    /\ \A src \in sources : tasks[src].state \in {"done", "raised"}
    /\ IF ~ReturnExceptions /\ \E src \in sources : tasks[src].state = "raised"
       THEN cpc' = "raised" /\ all_content' = all_content
       ELSE cpc' = "done" /\ all_content' = Gathered(tasks, 1, <<>>)
    /\ UNCHANGED <<vvars, pvars, kvars, beyond, sources, tasks>>

CollectNext ==
    \/ CollectNoSources
    \/ CollectGather
    \/ \E items \in ItemLists("RSS") : CollectRssDone(items)
    \/ CollectRssRaised
    \/ \E it \in {SourceItem("Reddit", n) : n \in 1..MaxSourceItems} :
           CollectRedditAppend(it)
    \/ CollectRedditDone
    \/ CollectRedditRaised
    \/ CollectReturn

CollectSpec == CollectInit /\ [][CollectNext]_vars

----------------------------------------------------------------------------
(* run_collection and the collect command (main.py), from the return of
   collector.collect on: content is what it returned. *)

NoResultsNever(results) == FALSE

\* if not results
NoResults(results) == results = <<>>

\* The validator and the pipeline as ContentCollector() leaves them, and
\* collect returned content: nothing when no source is configured.
RunInit ==
    /\ \E c \in PipeCtors : /\ ValidatorBuilt(c)
                           /\ Settings_llm = SetupLLMs(c).Settings_llm
    /\ sources \in {{}, {"RSS"}}
    /\ sources = {} => ctor = Ctor(FALSE, "none", "none", FALSE)
    /\ cpc = "done"
    /\ tasks = <<>>
    /\ all_content = <<>>
    /\ KwIdle
    /\ AgeIdle
    /\ TasksIdle
    /\ KEYWORDS \in PipeKeywords
    /\ content \in Batches
    /\ sources = {} => content = <<>>
    /\ summarizer_llm \in {"None", "S"}
    /\ ppc = "start"
    /\ keyword_matches = <<>>
    /\ recent_items = <<>>
    /\ idx = 1
    /\ keyword_filtered = 0
    /\ date_filtered = 0
    /\ llm_rejected = 0
    /\ processed_items = <<>>
    /\ verdicts = <<>>
    /\ summarized = <<>>
    /\ sumlog = <<>>
    /\ excs = {}
    /\ rpc = "running"
    /\ report = "none"
    /\ saves = 0
    /\ exit_status = -1
    /\ top_exc = "none"

\* The command ends with the given status.
Exit(status, exc) ==
    /\ rpc' = "ended"
    /\ exit_status' = status
    /\ top_exc' = exc

\* if not content: "No content collected", return
RunNoContent ==
    /\ rpc = "running"
    /\ ppc = "start"
    /\ content = <<>>
    /\ report' = "No content collected"
    /\ Exit(0, "none")
    /\ UNCHANGED <<vvars, pvars, cvars, kvars, avars, tvars, saves>>

\* process_content returned nothing: "No relevant content found", return
RunNoResults ==
    /\ rpc = "running"
    /\ ppc = "done"
    /\ NoResults(processed_items)
    /\ report' = "No relevant content found after processing"
    /\ Exit(0, "none")
    /\ UNCHANGED <<vvars, pvars, cvars, kvars, avars, tvars, saves>>

\* collector.save_results(results) wrote both files
RunSaved ==
    /\ rpc = "running"
    /\ ppc = "done"
    /\ ~NoResults(processed_items)
    /\ saves' = saves + 1
    /\ Exit(0, "none")
    /\ UNCHANGED <<vvars, pvars, cvars, kvars, avars, tvars, report>>

\* collector.save_results(results) raised (mkdir, open or write failed)
RunSaveFailed ==
    /\ rpc = "running"
    /\ ppc = "done"
    /\ ~NoResults(processed_items)
    /\ saves' = saves + 1
    /\ Exit(1, "Exception")
    /\ UNCHANGED <<vvars, pvars, cvars, kvars, avars, tvars, report>>

\* process_content raised: except Exception, typer.Exit(1)
RunFailed ==
    /\ rpc = "running"
    /\ ppc = "raised"
    /\ Exit(1, "Exception")
    /\ UNCHANGED <<vvars, pvars, cvars, kvars, avars, tvars, report, saves>>

\* KeyboardInterrupt while process_content awaits a backend: it leaves
\* validator.process and process_content; typer.Exit(130)
RunInterrupted ==
    /\ rpc = "running"
    /\ ppc \in {"loop", "summarizing"}
    /\ ppc' = "raised"
    /\ pc' = "idle"
    /\ Exit(130, "KeyboardInterrupt")
    /\ UNCHANGED <<use_multi_llm, validator, validator1, validator2,
                   Settings_llm, item, result1, result2, result, ret, calls,
                   responses, ctor, nCalls, demotedAt, secondFailedAt, batch,
                   filtered, idx, llm_rejected, processed_items, verdicts,
                   summarized, sumlog, excs, cvars, kvars, avars, tvars, report,
                   saves>>

RunNext ==
    \/ RunNoContent
    \/ ProcessContentFilter
    \/ ProcessContentDateError
    \/ ValidateSkipped
    \/ ValidateMulti
    \/ ValidateSingle
    \/ ValidateNoCall
    \/ \E r \in PipeResponses : Complete1Failed(r)
    \/ \E r \in PipeResponses : Complete1Ok(r)
    \/ \E r \in PipeResponses : Complete2Ok(r)
    \/ \E r \in PipeResponses : Complete2Failed(r)
    \/ \E r \in PipeResponses : CompleteSingleOk(r)
    \/ \E r \in PipeResponses : CompleteSingleFailed(r)
    \/ Rejected
    \/ SummarizeSkipped
    \/ SummarizeRequest
    \/ \E r \in SumResponses : SummarizeComplete(r)
    \/ ProcessContentReturn
    \/ RunNoResults
    \/ RunSaved
    \/ RunSaveFailed
    \/ RunFailed
    \/ RunInterrupted

RunSpec == RunInit /\ [][RunNext]_vars

----------------------------------------------------------------------------
(* Vocabulary of the properties *)

\* A process call has returned.
Returned == pc = "idle" /\ nCalls > 0

\* The running / last call took the multi-LLM branch.
InMultiBranch == result1.state # "unset"

Parsed(res) == res.state = "dict"

\* The result that the k-th completion request of the call produced.
ResultOf(k) ==
    IF ~InMultiBranch THEN result
    ELSE IF k = 1 THEN result1
    ELSE IF k = 2 /\ result2.state # "unset" THEN result2
    ELSE result

\* The backend accepts on its own: confident enough and claiming relevance.
Accepts(res) ==
    res.confidence >= LLM_CONFIDENCE_THRESHOLD /\ res.is_relevant = "true"

CallsAllTo(llm) ==
    \A k \in 1..Len(calls) : calls[k].llm = llm /\ calls[k].item = item

ZeroBackends(c) ==
    c.raised \/ (c.first = "none" /\ (c.multi => c.second = "none"))

----------------------------------------------------------------------------
(* Properties *)

\* C1: in multi mode, whenever both backends returned a parseable result the
\* call returns status multi_llm, and is_relevant is true exactly when both
\* results are at or above the threshold and both claim relevance.
C1_ConsensusOfBoth ==
    (Returned /\ Parsed(result1) /\ Parsed(result2)) =>
        /\ ret.validation_status = "multi_llm"
        /\ ret.is_relevant <=> (Accepts(result1) /\ Accepts(result2))

C3_FallbackToPrimary ==
    demotedAt > 0 =>
        /\ ~use_multi_llm
        /\ validator = validator1 /\ validator1 = "A"
        /\ CallsAllTo("A")
        /\ nCalls = demotedAt =>
               /\ IsNone(result1) /\ result2 = Unset
               /\ Len(calls) = 2
               /\ calls[2] = calls[1]
        /\ nCalls > demotedAt =>
               /\ ~InMultiBranch
               /\ Len(calls) = 1

C3_Witness ==
    /\ demotedAt > 0 /\ nCalls > demotedAt /\ Returned
    /\ ret.validation_status = "single_llm"
    /\ calls = <<[llm |-> "A", item |-> item]>>

\* C4 as stated: after validator1 failed in multi mode, every later process
\* call uses validator2 only.
C4_LaterCallsUseSecond ==
    (demotedAt > 0 /\ nCalls > demotedAt) =>
        /\ ~use_multi_llm
        /\ Len(calls) = 1
        /\ calls[1].llm = validator2

\* C4 amended: after validator1 failed in multi mode, every later process
\* call makes exactly one request, to validator1 (never to validator2), and
\* returns a single_llm or error result; the demotion is never undone.
C4_LaterCallsUsePrimary ==
    (demotedAt > 0 /\ nCalls > demotedAt) =>
        /\ ~use_multi_llm
        /\ Len(calls) = 1
        /\ calls[1].llm = validator1 /\ calls[1].llm # validator2
        /\ ret.validation_status \in {"none", "single_llm", "error"}

C4_Witness ==
    /\ demotedAt = 1 /\ nCalls >= 3 /\ Returned
    /\ calls[1].llm = "A"

\* C5: multi mode requested, first backend not constructed, second
\* constructed: process calls send the item to validator2 and do not end
\* without a completion call.
C5_DemoteToSecond ==
    (ctor = Ctor(TRUE, "none", "ok", FALSE) /\ Returned) =>
        /\ calls = <<[llm |-> "B", item |-> item]>>
        /\ ret.validation_status \in {"single_llm", "error"}
        /\ Parsed(result) => ret.validation_status = "single_llm"

\* C6: an instance built with no backend (either mode, factory raising
\* included) never issues a completion request and every process call
\* returns is_relevant false, the fallback confidence and status skipped.
C6_SkippedWithoutBackends ==
    ZeroBackends(ctor) =>
        /\ pc = "idle"
        /\ calls = <<>> /\ responses = <<>>
        /\ nCalls > 0 =>
               /\ ~ret.is_relevant
               /\ ret.confidence = LLM_VALIDATOR_CONFIDENCE
               /\ ret.validation_status = "skipped"

C6_Witness ==
    /\ ZeroBackends(ctor) /\ ctor.multi /\ ~ctor.raised
    /\ nCalls >= 2
    /\ ret.validation_status = "skipped"

\* C7: in single mode every parseable result is accepted (is_relevant true,
\* status single_llm) exactly when its confidence is at or above the
\* threshold and the backend claims relevance.
C7_SingleAcceptsIffConfidentAndRelevant ==
    (Returned /\ ~InMultiBranch /\ Parsed(result)) =>
        ((ret.is_relevant /\ ret.validation_status = "single_llm")
             <=> Accepts(result))

\* C8: each backend confidence is normalised before use: missing becomes
\* 0.9, above 1 becomes 1.0, below 0 becomes 0.0, anything else is kept; a
\* single_llm or multi_llm result reports a confidence within [0,1] and is
\* accepted only at or above the threshold.
C8_ConfidenceNormalised ==
    /\ \A k \in 1..Len(responses) :
           (responses[k].kind = "dict" /\ responses[k].conf_kind # "bad") =>
               /\ Parsed(ResultOf(k))
               /\ responses[k].conf_kind = "missing" =>
                      ResultOf(k).confidence = 90
               /\ (responses[k].conf_kind = "num" /\ responses[k].conf > 100) =>
                      ResultOf(k).confidence = 100
               /\ (responses[k].conf_kind = "num" /\ responses[k].conf < 0) =>
                      ResultOf(k).confidence = 0
               /\ (responses[k].conf_kind = "num" /\ responses[k].conf >= 0
                       /\ responses[k].conf <= 100) =>
                      ResultOf(k).confidence = responses[k].conf
    /\ ret.validation_status \in {"single_llm", "multi_llm"} =>
           /\ ret.confidence >= 0 /\ ret.confidence <= 100
           /\ ret.is_relevant => ret.confidence >= LLM_CONFIDENCE_THRESHOLD

C8_Witness ==
    /\ Returned /\ ret.validation_status = "single_llm"
    /\ responses[Len(responses)].conf_kind = "num"
    /\ responses[Len(responses)].conf = 140
    /\ ret.confidence = 100 /\ ret.is_relevant

\* C9: in single mode a completion that raises, carries no text or is not
\* parseable as a JSON object makes process return is_relevant false, the
\* fallback confidence and status error.
C9_SingleFailureIsError ==
    (Returned /\ ~InMultiBranch /\ Len(responses) = 1
         /\ responses[1].kind \in FailKinds) =>
        /\ ~ret.is_relevant
        /\ ret.confidence = LLM_VALIDATOR_CONFIDENCE
        /\ ret.validation_status = "error"

C9_Witness ==
    /\ Returned /\ ~InMultiBranch /\ ~use_multi_llm
    /\ Len(responses) = 1 /\ responses[1].kind = "raise"
    /\ ret.validation_status = "error"

\* C10: a JSON object without is_relevant yields None from the completion
\* contract, and from validator1 in multi mode it triggers the fallback to
\* single mode.
C10_FailsClosedOnMissingRelevance ==
    \A k \in 1..Len(responses) :
        (responses[k].kind = "dict" /\ responses[k].is_relevant = "missing") =>
            /\ IsNone(ResultOf(k))
            /\ (InMultiBranch /\ k = 1) => (demotedAt = nCalls /\ ~use_multi_llm)

\* C20: in multi mode, when validator1 gave a parseable result and
\* validator2 did not, that call goes on to the single validator branch with
\* validator1: one further request to validator1 for the same item, and the
\* call returns single_llm, or error if that request fails as well.  The
\* instance is not demoted: the next call again asks validator1 first and
\* validator2 second.
C20_SecondFailureKeepsMultiMode ==
    /\ (secondFailedAt > 0 /\ secondFailedAt = nCalls) =>
           /\ use_multi_llm /\ demotedAt = 0
           /\ Parsed(result1) /\ IsNone(result2)
           /\ Len(calls) = 3
           /\ calls[1].llm = validator1 /\ calls[2].llm = validator2
           /\ calls[3].llm = validator1
           /\ \A k \in 1..3 : calls[k].item = item
           /\ pc \in {"validator", "idle"}
           /\ pc = "idle" =>
                  /\ ret.validation_status \in {"single_llm", "error"}
                  /\ IsNone(result) => ret = ValidationFailed
                  /\ ~IsNone(result) => ret = SingleResult(result)
    /\ (secondFailedAt > 0 /\ nCalls = secondFailedAt + 1) =>
           /\ Len(calls) >= 1 /\ calls[1].llm = validator1
           /\ calls[1].item = item
           /\ Parsed(result1) =>
                  /\ use_multi_llm
                  /\ Len(calls) >= 2 /\ calls[2].llm = validator2

C20_Witness ==
    /\ secondFailedAt > 0 /\ nCalls = secondFailedAt + 1 /\ Returned
    /\ ret.validation_status = "multi_llm"
    /\ calls = <<[llm |-> "A", item |-> item], [llm |-> "B", item |-> item]>>

\* Some occurrence of keyword k in string s, compared character by character
\* without regard to case.
OccursIgnoringCase(k, s) ==
    \E i \in 0..(Len(s) - Len(k)) :
        \A j \in 1..Len(k) : LowerChar(k[j]) = LowerChar(s[i + j])

Range(seq) == {seq[k] : k \in 1..Len(seq)}

\* process_content got past its two early returns.
Started == sources # {} /\ content # <<>> /\ ppc # "start"

\* No keyword occurs in the title or the content of content[k].
NoKeyword(k) ==
    \A n \in 1..Len(KEYWORDS) :
        /\ ~OccursIgnoringCase(KEYWORDS[n], content[k].title)
        /\ ~OccursIgnoringCase(KEYWORDS[n], content[k].content)

\* The places of processed_items that hold a record of content[k].
RecordsOf(k) == {j \in 1..Len(processed_items) : processed_items[j].item = k}

\* validator.process was called for content[k] and its result received.
WasValidated(k) == \E j \in 1..Len(verdicts) : recent_items[j] = k

\* An LLM call made for content[k] raised.
RaisedFor(k) ==
    \/ k \in excs
    \/ \E j \in 1..Len(sumlog) : summarized[j] = k /\ sumlog[j].kind = "raise"

\* C11: with a non-empty keyword list, an item in which no keyword occurs,
\* case ignored, in title or content is counted as keyword-filtered and
\* never handed to the recency filter, the validator or the summarizer.
C11_NoKeywordIsFilteredOut ==
    (Started /\ KEYWORDS # <<>>) =>
        /\ keyword_filtered =
               Cardinality({k \in 1..Len(content) : NoKeyword(k)})
        /\ \A k \in 1..Len(content) :
               NoKeyword(k) =>
                   /\ k \notin Range(keyword_matches)
                   /\ k \notin Range(recent_items)
                   /\ nCalls > 0 => item # k
                   /\ \A j \in 1..Len(calls) : calls[j].item # k
                   /\ k \notin Range(summarized)
                   /\ RecordsOf(k) = {}

C11_Witness ==
    /\ Started /\ KEYWORDS # <<>> /\ ppc = "done"
    /\ \E k \in 1..Len(content) : NoKeyword(k)
    /\ keyword_filtered = 1
    /\ Len(processed_items) = 2

\* C13: an item whose date is None or the empty string is never dropped by
\* the recency filter: it is not counted as date-filtered, and once it has
\* passed the keyword filter it reaches the validator.
C13_EmptyDateReachesValidator ==
    Started =>
        /\ date_filtered <=
               Cardinality({k \in Range(keyword_matches) :
                                content[k].date.text = "str"})
        /\ \A k \in Range(keyword_matches) :
               (content[k].date.text \in {"None", "empty"}
                    /\ ppc \in {"done", "raised"}) => WasValidated(k)

\* C14: a date string that no format parses, on an item that passed the
\* keyword filter, makes that one item skipped: process_content does not
\* raise, and the other items of the batch are filtered and validated.
C14_UnrecognizedDateSkipped ==
    /\ ppc # "raised"
    /\ (Started /\ ppc = "done") =>
           \A k \in Range(keyword_matches) :
               /\ IsOlderThan10Days(content[k].date) = "ValueError" =>
                      k \notin Range(recent_items)
               /\ IsOlderThan10Days(content[k].date) = "False" =>
                      WasValidated(k)

C16_RelevantItemYieldsOneRecord ==
    \A j \in 1..Len(verdicts) :
        verdicts[j] =>
            IF ppc = "summarizing" /\ j = idx
            THEN RecordsOf(recent_items[j]) = {}
            ELSE /\ Cardinality(RecordsOf(recent_items[j])) = 1
                 /\ \A n \in RecordsOf(recent_items[j]) :
                        /\ summarizer_llm = "None" =>
                               processed_items[n].summarization_status = "skipped"
                        /\ summarizer_llm # "None" =>
                               /\ n <= Len(sumlog)
                               /\ summarized[n] = recent_items[j]
                               /\ sumlog[n].kind \in {"raise", "badjson"} =>
                                      /\ processed_items[n].summarization_status = "error"
                                      /\ processed_items[n].title \in
                                             {"item.title", "Error Processing Title"}
                               /\ sumlog[n].kind = "dict" =>
                                      processed_items[n].summarization_status = "success"

C16_Witness ==
    /\ Started /\ ppc = "done"
    /\ Len(sumlog) = 1 /\ sumlog[1].kind = "badjson"
    /\ Len(processed_items) = 1
    /\ processed_items[1].summarization_status = "error"
    /\ processed_items[1].title = "Error Processing Title"

\* C17: when process_content returns, the counters partition the batch:
\* total = keyword_filtered + date_filtered + sent to validation, sent to
\* validation = llm_rejected + accepted, and the returned list holds exactly
\* the accepted records; 3 items with 1 keyword-filtered, 1 date-filtered and
\* 1 accepted at 0.95 give 1 record.
C17_CountersPartitionTheBatch ==
    (Started /\ ppc = "done") =>
        /\ Len(content) = keyword_filtered + date_filtered + Len(recent_items)
        /\ Len(verdicts) = Len(recent_items)
        /\ Len(recent_items) = llm_rejected + Len(processed_items)
        /\ Len(processed_items) =
               Cardinality({j \in 1..Len(verdicts) : verdicts[j]})
        /\ llm_rejected = Cardinality({j \in 1..Len(verdicts) : ~verdicts[j]})
        /\ (/\ Len(content) = 3 /\ keyword_filtered = 1 /\ date_filtered = 1
            /\ ret.is_relevant /\ ret.confidence = 95) =>
               /\ Len(processed_items) = 1
               /\ llm_rejected = 0

C17_Witness ==
    /\ Started /\ ppc = "done"
    /\ Len(content) = 3 /\ keyword_filtered = 1 /\ date_filtered = 1
    /\ ret.is_relevant /\ ret.confidence = 95
    /\ Len(processed_items) = 1 /\ llm_rejected = 0

\* C19: items are validated and summarized one at a time: validation of an
\* item precedes its summarization, the summarizer is called only for an item
\* found relevant, no LLM call is made for an item before the last LLM call
\* of the item before it has finished, and the records keep the order of the
\* input.
C19_OneItemAtATime ==
    /\ nCalls <= idx /\ Len(verdicts) \in {idx - 1, idx}
    /\ nCalls > 0 =>
           /\ nCalls <= Len(recent_items) /\ item = recent_items[nCalls]
           /\ \A j \in 1..Len(calls) : calls[j].item = recent_items[nCalls]
    /\ pc # "idle" =>
           /\ ppc = "loop" /\ nCalls = idx /\ Len(verdicts) = idx - 1
    /\ ppc = "summarizing" =>
           /\ pc = "idle" /\ nCalls = idx /\ Len(verdicts) = idx
           /\ verdicts[idx] /\ ret.is_relevant
           /\ summarized[Len(summarized)] = recent_items[idx]
           /\ Len(sumlog) = Len(summarized) - 1
    /\ \A j \in 1..Len(summarized) :
           \E n \in 1..Len(verdicts) :
               verdicts[n] /\ recent_items[n] = summarized[j]
    /\ \A a, b \in 1..Len(processed_items) :
           a < b => processed_items[a].item < processed_items[b].item
    /\ \A a, b \in 1..Len(summarized) : a < b => summarized[a] < summarized[b]
    /\ \A a, b \in 1..Len(recent_items) :
           a < b => recent_items[a] < recent_items[b]

C19_Witness ==
    /\ Started /\ ppc = "summarizing" /\ idx = 2
    /\ Len(processed_items) = 1 /\ verdicts = <<TRUE, TRUE>>
    /\ Len(calls) = 2

\* The items of source src in all_content, in their order there.
From(src) == SelectSeq(all_content, LAMBDA it : it.source = src)

\* C18: every configured source collector runs to completion whatever the
\* others do: when one raises, collect does not raise and returns all items
\* of the sources that succeeded, each source's items in the order that
\* source produced them.
C18_CollectSurvivesFailedSource ==
    /\ cpc # "raised"
    /\ (cpc = "done" /\ sources # {}) =>
           /\ \A src \in sources : tasks[src].state \in {"done", "raised"}
           /\ \A src \in sources :
                  /\ tasks[src].state = "done" => From(src) = tasks[src].items
                  /\ tasks[src].state = "raised" => From(src) = <<>>
           /\ \A k \in 1..Len(all_content) : all_content[k].source \in sources

C18_Witness ==
    /\ cpc = "done" /\ sources = {"RSS", "Reddit"}
    /\ tasks["RSS"].state = "raised"
    /\ tasks["Reddit"].state = "done"
    /\ all_content = <<SourceItem("Reddit", 2), SourceItem("Reddit", 1)>>

\* C21: the mode only moves one way: once use_multi_llm is false, by
\* configuration, by demotion at construction or by the runtime fallback, no
\* step makes it true again, and no call made from then on asks validator2
\* or returns status multi_llm.
C21_ModeOnlyMovesOneWay ==
    /\ [][~use_multi_llm => ~use_multi_llm']_vars
    /\ [](~use_multi_llm =>
              /\ \A k \in 1..Len(calls) : calls[k].llm # "B"
              /\ pc # "validator2"
              /\ ret.validation_status # "multi_llm")

C21_Witness ==
    /\ demotedAt = 1 /\ nCalls = 3 /\ Returned
    /\ ~use_multi_llm /\ validator2 = "B"
    /\ ret.validation_status = "single_llm" /\ ret.is_relevant

\* The date was parsed by one of the formats.
Parseable(date) == date.text = "str" /\ date.fmt # 0

\* C23: an item with a parseable date is dropped by the recency filter
\* exactly when the whole days in now - parsed date exceed 10: aged 10 days
\* and 23 hours it is kept, aged 11 days or more it is dropped, dated in the
\* future it is kept.
C23_DroppedIffOlderThanTenDays ==
    (age_result # "none" /\ Parseable(age_date)) =>
        /\ age_result \in {"True", "False"}
        /\ age_result = "True" <=> Now - age_date.ts >= 11 * HoursPerDay
        /\ Now - age_date.ts = 10 * HoursPerDay + 23 => age_result = "False"
        /\ age_date.ts > Now => age_result = "False"

C23_Witness ==
    /\ Parseable(age_date)
    /\ Now - age_date.ts = 10 * HoursPerDay + 23
    /\ age_result = "False"

\* C24: in every record, url, source and date are those of the item, and
\* the title is the item's title whenever that is non-empty, whatever keys
\* the summarizer's object carries.
C24_RecordKeepsItemFields ==
    \A n \in 1..Len(processed_items) :
        /\ processed_items[n].url = "item.url"
        /\ content[processed_items[n].item].title # <<>> =>
               processed_items[n].title = "item.title"

\* process_content was never called.
NotProcessed == ppc = "start" /\ nCalls = 0 /\ verdicts = <<>>

\* C22: a run ends in exactly one way.  No items collected: it reports "no
\* content collected" and neither processes nor saves.  No records: it
\* reports "no relevant content found" and does not save.  Otherwise
\* save_results is called once, after process_content returned.  The exit
\* status is non-zero only when an exception or an interruption reached the
\* top level.
C22_RunEndsOneWay ==
    /\ saves <= 1
    /\ saves = 1 => ppc = "done" /\ processed_items # <<>> /\ rpc = "ended"
    /\ rpc = "running" =>
           report = "none" /\ exit_status = -1 /\ top_exc = "none"
    /\ rpc = "ended" =>
           /\ exit_status \in {0, 1, 130}
           /\ exit_status = 0 <=> top_exc = "none"
           /\ exit_status = 1 <=> top_exc = "Exception"
           /\ exit_status = 130 <=> top_exc = "KeyboardInterrupt"
           /\ report = "No content collected" <=>
                  (content = <<>> /\ exit_status = 0)
           /\ report = "No content collected" => NotProcessed /\ saves = 0
           /\ report = "No relevant content found after processing" <=>
                  (ppc = "done" /\ processed_items = <<>> /\ exit_status = 0)
           /\ report = "No relevant content found after processing" =>
                  saves = 0
           /\ (report = "none" /\ exit_status = 0) =>
                  (saves = 1 /\ ppc = "done" /\ processed_items # <<>>)
           /\ top_exc = "none" =>
                  (ppc # "raised" /\ (content # <<>> => ppc = "done"))

C22_Witness ==
    /\ rpc = "ended" /\ exit_status = 0 /\ report = "none"
    /\ saves = 1 /\ Len(processed_items) = 2

\* C25: every value process returns, in any mode and after any earlier
\* calls, has a validation_status among skipped, single_llm, multi_llm and
\* error; a relevant result has status single_llm or multi_llm and a
\* confidence of at least LLM_CONFIDENCE_THRESHOLD; a skipped or error result
\* is not relevant and carries the fallback confidence.
C25_ReturnedValueShape ==
    Returned =>
        /\ ret.validation_status \in {"skipped", "single_llm", "multi_llm", "error"}
        /\ ret.is_relevant =>
               /\ ret.validation_status \in {"single_llm", "multi_llm"}
               /\ ret.confidence >= LLM_CONFIDENCE_THRESHOLD
        /\ ret.validation_status \in {"skipped", "error"} =>
               /\ ~ret.is_relevant
               /\ ret.confidence = LLM_VALIDATOR_CONFIDENCE

\* The third call of an instance returns a relevant multi-LLM result after
\* earlier calls of the same instance have returned.
C25_Witness ==
    /\ Returned /\ nCalls = 3
    /\ ret.is_relevant /\ ret.validation_status = "multi_llm"
    /\ ret.confidence >= LLM_CONFIDENCE_THRESHOLD

\* The validator's own state.
OwnState == <<use_multi_llm, validator, validator1, validator2>>

\* C26: a process call changes the validator's own state (use_multi_llm,
\* validator, validator1, validator2) only in the branch where validator1
\* returned no result in multi mode; every other step of a call (skipped,
\* multi_llm result, single_llm result, validator2 failure, error result)
\* leaves the mode flag and all backend handles unchanged.
C26_OwnStateChangesOnlyOnPrimaryFailure ==
    [][OwnState' # OwnState =>
           /\ pc = "validator1" /\ use_multi_llm
           /\ IsNone(result1')
           /\ demotedAt' = nCalls]_vars

\* An instance whose validator2 failed in one call and whose validator1
\* failed in a later one: only the latter changed the own state.
C26_Witness ==
    /\ Returned /\ secondFailedAt = 1 /\ demotedAt = 2
    /\ ~use_multi_llm /\ validator = validator1 /\ validator1 = "A"

----------------------------------------------------------------------------
(* Concurrent process calls.  The tasks of one event loop each run one
   process call, on the same ContentValidator or on different ones; all of
   them share Settings.llm.  A task runs from one suspension to the next:
   _safe_llm_completion is cut at "Settings.llm = llm" (position "set") and
   at the evaluation of "Settings.llm.acomplete(prompt)" (position "send"),
   and the event loop may run another task only where SwitchPoint allows. *)

MaxTasks == 2

Tasks == 1..MaxTasks

InstanceNames == {"first", "second"}

\* The backend object an instance holds under one of its fields.
Handle(inst, llm) == <<inst, llm>>

NoHandle == Handle("none", "None")

NoRequest == [arg |-> NoHandle, to |-> NoHandle]

\* Settings.llm after both instances were constructed, first then second.
SettingsAfter(insts) ==
    IF insts["second"].Settings_llm # "None"
        THEN Handle("second", insts["second"].Settings_llm)
    ELSE IF insts["first"].Settings_llm # "None"
        THEN Handle("first", insts["first"].Settings_llm)
    ELSE NoHandle

SwitchPointAnywhere(position) == TRUE

\* Cooperative scheduling: a task gives up the event loop only while its
\* acomplete is awaited, and when its process call has returned.
SwitchPoint(position) == position \in {"await", "done"}

\* The event loop may run task t.
Runnable(t) == running \in {0, t}

\* The event loop after task t moved to position.
Yield(t, position) == running' = IF SwitchPoint(position) THEN 0 ELSE t

\* What the validator actions of one instance hold, untouched here.
single == <<use_multi_llm, validator, validator1, validator2, pc, item,
            result1, result2, result, ret, calls, responses, ctor, nCalls,
            demotedAt, secondFailedAt>>

ConcInit ==
    /\ ValidatorBuilt(Ctor(FALSE, "none", "none", FALSE))
    /\ PipeIdle
    /\ CollectIdle
    /\ KwIdle
    /\ RunIdle
    /\ AgeIdle
    /\ instances \in [InstanceNames -> {SetupLLMs(c) : c \in Ctors}]
    /\ task_self \in [Tasks -> InstanceNames]
    /\ task_pc = [t \in Tasks |-> "new"]
    /\ task_llm = [t \in Tasks |-> NoHandle]
    /\ task_name = [t \in Tasks |-> "none"]
    /\ task_sent = [t \in Tasks |-> NoRequest]
    /\ running = 0
    /\ Settings_llm = SettingsAfter(instances)

\* Task t enters _safe_llm_completion(llm, item.content, name).
TaskCall(t, llm, name) ==
    /\ task_llm' = [task_llm EXCEPT ![t] = Handle(task_self[t], llm)]
    /\ task_name' = [task_name EXCEPT ![t] = name]
    /\ task_pc' = [task_pc EXCEPT ![t] = "set"]
    /\ Yield(t, "set")

\* Task t's process call returns.
TaskReturn(t) ==
    /\ task_pc' = [task_pc EXCEPT ![t] = "done"]
    /\ Yield(t, "done")
    /\ UNCHANGED <<task_llm, task_name>>

\* The single validator branch of process, for an instance in state self.
TaskSingleBranch(t, self) ==
    IF SingleValidator(self.use_multi_llm, self.validator, self.validator1) # "None"
    THEN TaskCall(t, SingleValidator(self.use_multi_llm, self.validator,
                                     self.validator1), "validator")
    ELSE TaskReturn(t)

\* process from its entry to its first _safe_llm_completion call, if any.
TaskEnter(t) ==
    LET self == instances[task_self[t]] IN
    /\ task_pc[t] = "new"
    /\ Runnable(t)
    /\ IF NoValidators(self.use_multi_llm, self.validator, self.validator1,
                       self.validator2)
       THEN TaskReturn(t)
       ELSE IF MultiBranch(self.use_multi_llm, self.validator1, self.validator2)
       THEN TaskCall(t, self.validator1, "validator1")
       ELSE TaskSingleBranch(t, self)
    /\ UNCHANGED <<instances, task_self, task_sent, Settings_llm, single,
                   pvars, cvars, kvars, rvars, avars>>

\* Settings.llm = llm
TaskSet(t) ==
    /\ task_pc[t] = "set"
    /\ Runnable(t)
    /\ Settings_llm' = task_llm[t]
    /\ task_pc' = [task_pc EXCEPT ![t] = "send"]
    /\ Yield(t, "send")
    /\ UNCHANGED <<instances, task_self, task_llm, task_name, task_sent,
                   single, pvars, cvars, kvars, rvars, avars>>

\* response = await Settings.llm.acomplete(prompt): the request goes to
\* what Settings.llm holds now, and the task is suspended.
TaskSend(t) ==
    /\ task_pc[t] = "send"
    /\ Runnable(t)
    /\ task_sent' = [task_sent EXCEPT ![t] = [arg |-> task_llm[t],
                                               to |-> Settings_llm]]
    /\ task_pc' = [task_pc EXCEPT ![t] = "await"]
    /\ Yield(t, "await")
    /\ UNCHANGED <<instances, task_self, task_llm, task_name, Settings_llm,
                   single, pvars, cvars, kvars, rvars, avars>>

\* validator1's acomplete of task t completed with r.
TaskResume1(t, r) ==
    LET self == instances[task_self[t]]
        after == IF IsNone(SafeLLMCompletion(r)) THEN PrimaryFailed(self)
                 ELSE self
    IN
    /\ task_pc[t] = "await"
    /\ task_name[t] = "validator1"
    /\ Runnable(t)
    /\ instances' = [instances EXCEPT ![task_self[t]] = after]
    /\ IF IsNone(SafeLLMCompletion(r))
       THEN TaskSingleBranch(t, after)
       ELSE TaskCall(t, self.validator2, "validator2")
    /\ UNCHANGED <<task_self, task_sent, Settings_llm, single, pvars, cvars,
                   kvars, rvars, avars>>

\* validator2's acomplete of task t completed with r.
TaskResume2(t, r) ==
    LET self == instances[task_self[t]] IN
    /\ task_pc[t] = "await"
    /\ task_name[t] = "validator2"
    /\ Runnable(t)
    /\ IF IsNone(SafeLLMCompletion(r))
       THEN TaskSingleBranch(t, SecondaryFailed(self))
       ELSE TaskReturn(t)
    /\ UNCHANGED <<instances, task_self, task_sent, Settings_llm, single,
                   pvars, cvars, kvars, rvars, avars>>

\* The single validator's acomplete of task t completed: process returns.
TaskResumeSingle(t) ==
    /\ task_pc[t] = "await"
    /\ task_name[t] = "validator"
    /\ Runnable(t)
    /\ TaskReturn(t)
    /\ UNCHANGED <<instances, task_self, task_sent, Settings_llm, single,
                   pvars, cvars, kvars, rvars, avars>>

ConcNext ==
    \/ \E t \in Tasks : TaskEnter(t)
    \/ \E t \in Tasks : TaskSet(t)
    \/ \E t \in Tasks : TaskSend(t)
    \/ \E t \in Tasks, r \in Responses : TaskResume1(t, r)
    \/ \E t \in Tasks, r \in Responses : TaskResume2(t, r)
    \/ \E t \in Tasks : TaskResumeSingle(t)

ConcSpec == ConcInit /\ [][ConcNext]_vars

\* C27: although _safe_llm_completion writes its llm argument into the
\* process-wide Settings.llm before the call, under cooperative scheduling
\* every completion request is sent to the handle that was passed as the
\* argument: in any interleaving of concurrent process calls, on the same or
\* on different instances, no request goes to a backend another call chose.
C27_RequestGoesToPassedHandle ==
    \A t \in Tasks :
        task_sent[t] # NoRequest =>
            /\ task_sent[t].to = task_sent[t].arg
            /\ task_sent[t].to[1] = task_self[t]

\* Two calls on one instance are suspended on different backends, and
\* Settings.llm holds the handle of the one that asked last.
C27_Witness ==
    /\ task_self[1] = task_self[2]
    /\ task_pc[1] = "await" /\ task_pc[2] = "await"
    /\ task_sent[1].to = Handle(task_self[1], "B")
    /\ task_sent[2].to = Handle(task_self[2], "A")
    /\ Settings_llm = task_sent[2].to

====
